---- MODULE Spec2Model ----
(***************************************************************************)
(* Model of duplicateRemover.py: the type-aware duplicate consolidation    *)
(* engine.  A run walks the input tree once per family, builds artifacts,  *)
(* fingerprints them, clusters them by fingerprint, keeps the first        *)
(* artifact of every sorted cluster and copies then deletes the others,    *)
(* recording each successful file operation in actions_log.                *)
(*                                                                         *)
(* A path is <<dir, name>> where name is the file name split at its dots:  *)
(* a/map.v1.tab is <<"a", <<"map", "v1", "tab">>>>.  In a directory of a   *)
(* tree no first token is a proper string prefix of another one, so the   *)
(* string prefix test of glob("base*") is the token prefix test.          *)
(* A digest is represented by the byte string that was fed to SHA-256      *)
(* (SHA-256 taken as injective), so the digest of a group is the           *)
(* concatenation of the bytes of the members that could be read.           *)
(***************************************************************************)
EXTENDS Integers, Sequences, FiniteSets, TLC

VARIABLES
    disk,         \* input tree: existing path -> [bytes, ctime]
    outdisk,      \* output tree: mirrored path -> bytes
    actions_log,  \* the global audit list (line 60)
    reports,      \* the CSV reports written so far: header and data rows
    run,          \* number of the current invocation of main
    pass,         \* index in PassOrder of the pass in progress, 0 before the first
    pc,           \* "idle" | "ops" | "done" | "halted"
    arts,         \* artifacts built by the walk of the current pass
    buckets,      \* hash_to_files.values() not yet visited, insertion order
    ops,          \* file operations still to issue for the current cluster
    faults,       \* failures the environment may still inject
    init,         \* ghost: the input tree when the first run started
    claimed,      \* ghost: <<pass, file>> for every member of an artifact of this run
    events        \* ghost: every survivor announcement and file operation

vars == <<disk, outdisk, actions_log, reports, run, pass, pc, arts, buckets,
          ops, faults, init, claimed, events>>

(***************************************************************************)
(* Bounds                                                                  *)
(***************************************************************************)
MaxFiles == 3

MaxFaults == 1

MaxRuns == 2

(***************************************************************************)
(* Extension tables (lines 42-48), lower-cased, split at the dots          *)
(***************************************************************************)
SHAPEFILE_EXTENSIONS ==
    << <<"shp">>, <<"shx">>, <<"dbf">>, <<"prj">>, <<"cpg">>, <<"sbn">>,
       <<"sbx">>, <<"shp", "xml">> >>

IMAGEFILE_EXTENSIONS ==
    << <<"tif">>, <<"jpg">>, <<"tfw">>, <<"aux", "xml">>, <<"ovr">>, <<"rrd">>,
       <<"prj">>, <<"tif", "xml">>, <<"tif", "aux", "xml">>, <<"tif", "ovr">>,
       <<"grd">>, <<"jpeg">>, <<"png">>, <<"png", "xml">>, <<"gif">>, <<"bmp">>,
       <<"tiff">>, <<"img">>, <<"jp2">>, <<"crf">>, <<"psd">>, <<"ora">>,
       <<"bt">>, <<"dt2">>, <<"ecw">>, <<"dat">>, <<"lgg">>, <<"asc">>,
       <<"hdr">>, <<"bip">>, <<"bil">>, <<"clr">>, <<"stx">>, <<"bag">>,
       <<"tff">>, <<"raw">>, <<"ers">> >>

MAPINFO_EXTENSIONS ==
    << <<"tab">>, <<"dat">>, <<"dbf">>, <<"map">>, <<"id">>, <<"ind">>,
       <<"mif">>, <<"mid">>, <<"wor">>, <<"gml">>, <<"tab", "xml">> >>

GDB_EXTENSIONS ==
    << <<"gdb">>, <<"geodatabase">>, <<"mdb">>, <<"accdb">>, <<"sde">> >>

NON_GIS_DB_EXTENSIONS == << <<"sqlite">>, <<"sql">> >>

PACKAGE_EXTENSIONS == << <<"mpk">>, <<"mpkx">>, <<"lpk">>, <<"lpkx">> >>

ZIP_EXTENSIONS == << <<"zip">>, <<"7z">> >>

ShapefileExts == {SHAPEFILE_EXTENSIONS[i] : i \in 1..Len(SHAPEFILE_EXTENSIONS)}

ImagefileExts == {IMAGEFILE_EXTENSIONS[i] : i \in 1..Len(IMAGEFILE_EXTENSIONS)}

PackageExts == {PACKAGE_EXTENSIONS[i] : i \in 1..Len(PACKAGE_EXTENSIONS)}

ZipExts == {ZIP_EXTENSIONS[i] : i \in 1..Len(ZIP_EXTENSIONS)}

NonGisDbExts == {NON_GIS_DB_EXTENSIONS[i] : i \in 1..Len(NON_GIS_DB_EXTENSIONS)}

\* run_all: the passes in call order
PassOrder ==
    << "Shapefile", "MapInfo", "Image", "Package", "ZIP", "Non-GIS Database",
       "Generic" >>

(***************************************************************************)
(* Sequences                                                               *)
(***************************************************************************)
Range(s) == {s[i] : i \in 1..Len(s)}

Front(s) == SubSeq(s, 1, Len(s) - 1)

Last(s) == s[Len(s)]

IsPrefix(s, t) == Len(s) <= Len(t) /\ SubSeq(t, 1, Len(s)) = s

RECURSIVE Filter(_, _)
Filter(s, keep) ==
    IF s = <<>> THEN <<>>
    ELSE IF Head(s) \in keep THEN <<Head(s)>> \o Filter(Tail(s), keep)
         ELSE Filter(Tail(s), keep)

RECURSIVE Flatten(_)
Flatten(ss) == IF ss = <<>> THEN <<>> ELSE Head(ss) \o Flatten(Tail(ss))

RECURSIVE Perms(_)
Perms(S) ==
    IF S = {} THEN {<<>>}
    ELSE UNION {{<<x>> \o p : p \in Perms(S \ {x})} : x \in S}

(***************************************************************************)
(* Paths and names                                                         *)
(***************************************************************************)
Dir(p) == p[1]

Name(p) == p[2]

\* str.endswith(ext) for an entry of an extension table
EndsWith(name, ext) ==
    /\ Len(name) > Len(ext)
    /\ SubSeq(name, Len(name) - Len(ext) + 1, Len(name)) = ext

\* any(name.endswith(ext) for ext in exts), exts given as the set of a table
EndsWithAny(name, exts) ==
    \E n \in 1..(Len(name) - 1) : SubSeq(name, Len(name) - n + 1, Len(name)) \in exts

\* os.path.splitext(p)[1]: the last extension only
SplitExt(name) == IF Len(name) > 1 THEN <<Last(name)>> ELSE <<>>

\* os.path.splitext(p)[0]
SplitBase(p) == <<Dir(p), IF Len(Name(p)) > 1 THEN Front(Name(p)) ELSE Name(p)>>

(***************************************************************************)
(* ArtifactResolver: the handler classes                                   *)
(***************************************************************************)
\* glob(pattern): the directory's entries in listing order that match
Glob(listing, matching) == Filter(listing, Range(listing) \cap matching)

\* glob(f"{base}.*")
DotStar(base, f) ==
    /\ Dir(f) = Dir(base)
    /\ IsPrefix(Name(base), Name(f))
    /\ Len(Name(f)) > Len(Name(base))

\* glob(f"{base}*")
Star(base, f) == Dir(f) = Dir(base) /\ IsPrefix(Name(base), Name(f))

\* ShapefileGroup.__init__
ShapefileGroup(shp_path, listing) ==
    LET base_path == SplitBase(shp_path) IN
    [ entry |-> shp_path,
      base_path |-> base_path,
      files |-> Glob(listing,
                     {f \in Range(listing) :
                         /\ DotStar(base_path, f)
                         /\ SplitExt(Name(f)) \in ShapefileExts}) ]

\* ImageGroup.__init__
ImageGroup(file_path, listing) ==
    LET base_path == SplitBase(file_path) IN
    [ entry |-> file_path,
      base_path |-> base_path,
      files |-> Glob(listing,
                     {f \in Range(listing) :
                         /\ Star(base_path, f)
                         /\ EndsWithAny(Name(f), ImagefileExts)}) ]

\* MapInfoGroup._get_base_path: every suffix of the file name is stripped
GetBasePath(tab_path) == <<Dir(tab_path), <<Name(tab_path)[1]>>>>

\* MapInfoGroup._gather_components: per extension, in table order, the file
\* base+ext and then the file base+ext+".xml", each when it exists
RECURSIVE GatherComponents(_, _, _)
GatherComponents(base_path, exts, listing) ==
    IF exts = <<>> THEN <<>>
    ELSE LET found == <<Dir(base_path), Name(base_path) \o Head(exts)>>
             compound == <<Dir(base_path), Name(base_path) \o Head(exts) \o <<"xml">>>>
         IN  Filter(<<found>>, Range(listing))
             \o Filter(<<compound>>, Range(listing))
             \o GatherComponents(base_path, Tail(exts), listing)

\* MapInfoGroup.__init__
MapInfoGroup(tab_path, listing) ==
    LET base_path == GetBasePath(tab_path) IN
    [ entry |-> tab_path,
      base_path |-> base_path,
      files |-> GatherComponents(base_path, MAPINFO_EXTENSIONS, listing) ]

\* PackageFile.__init__ (no base_path attribute: getattr falls back to
\* file_path), ZipFileHandler.__init__, NonGISDatabase.__init__
AtomicFile(file_path) ==
    [ entry |-> file_path, base_path |-> file_path, files |-> <<file_path>> ]

\* GenericFile.__init__
GenericFile(file_path, listing) ==
    LET base_path == SplitBase(file_path) IN
    [ entry |-> file_path,
      base_path |-> base_path,
      files |-> Glob(listing, {f \in Range(listing) : Star(base_path, f)}) ]

\* _process_generic_files: known_exts
KnownExts ==
    ShapefileExts \cup ImagefileExts
    \cup {MAPINFO_EXTENSIONS[i] : i \in 1..Len(MAPINFO_EXTENSIONS)}
    \cup {GDB_EXTENSIONS[i] : i \in 1..Len(GDB_EXTENSIONS)}
    \cup NonGisDbExts \cup PackageExts \cup ZipExts

\* the entry-point rule of each pass
IsEntry(fam, f) ==
    CASE fam = "Shapefile" -> EndsWith(Name(f), <<"shp">>)
      [] fam = "MapInfo" -> EndsWith(Name(f), <<"tab">>)
      [] fam = "Image" -> EndsWithAny(Name(f), ImagefileExts)
      [] fam = "Package" -> EndsWithAny(Name(f), PackageExts)
      [] fam = "ZIP" -> EndsWithAny(Name(f), ZipExts)
      [] fam = "Non-GIS Database" -> EndsWithAny(Name(f), NonGisDbExts)
      [] OTHER -> SplitExt(Name(f)) \notin KnownExts

\* handler_class(path, logger) of each pass
Resolve(fam, f, listing) ==
    CASE fam = "Shapefile" -> ShapefileGroup(f, listing)
      [] fam = "MapInfo" -> MapInfoGroup(f, listing)
      [] fam = "Image" -> ImageGroup(f, listing)
      [] fam = "Generic" -> GenericFile(f, listing)
      [] OTHER -> AtomicFile(f)

(***************************************************************************)
(* ContentHasher                                                           *)
(***************************************************************************)
None == [ok |-> FALSE, bytes |-> <<>>]

\* the bytes of the members that can be read, concatenated in visiting order
RECURSIVE Feed(_, _, _)
Feed(files, tree, bad) ==
    IF files = <<>> THEN <<>>
    ELSE (IF Head(files) \in DOMAIN tree /\ Head(files) \notin bad
          THEN tree[Head(files)].bytes ELSE <<>>)
         \o Feed(Tail(files), tree, bad)

\* a group hash that gives up at the first member it cannot read
AbortingHash(files, tree, bad) ==
    IF \E f \in Range(files) : f \notin DOMAIN tree \/ f \in bad
    THEN None
    ELSE [ok |-> TRUE, bytes |-> Feed(files, tree, bad)]

\* ShapefileGroup.hash, ImageGroup.hash, GenericFile.hash: always a digest
GroupHash(files, tree, bad) == [ok |-> TRUE, bytes |-> Feed(files, tree, bad)]

\* get_file_hash: None when the file cannot be read
GetFileHash(f, tree, bad) ==
    IF f \in DOMAIN tree /\ f \notin bad
    THEN [ok |-> TRUE, bytes |-> tree[f].bytes]
    ELSE None

\* the suffixes of MapInfo components in the order sorted() gives their paths
MapInfoSorted ==
    << <<"dat">>, <<"dat", "xml">>, <<"dbf">>, <<"dbf", "xml">>, <<"gml">>,
       <<"gml", "xml">>, <<"id">>, <<"id", "xml">>, <<"ind">>, <<"ind", "xml">>,
       <<"map">>, <<"map", "xml">>, <<"mid">>, <<"mid", "xml">>, <<"mif">>,
       <<"mif", "xml">>, <<"tab">>, <<"tab", "xml">>, <<"tab", "xml", "xml">>,
       <<"wor">>, <<"wor", "xml">> >>

\* sorted(self.files) of a MapInfoGroup
SortedFiles(base_path, files) ==
    Flatten([i \in 1..Len(MapInfoSorted) |->
                Filter(files, {<<Dir(base_path), Name(base_path) \o MapInfoSorted[i]>>})])

\* obj.hash() of each pass
Hash(fam, art, tree, bad) ==
    CASE fam \in {"Shapefile", "Image", "Generic"} -> GroupHash(art.files, tree, bad)
      [] fam = "MapInfo" -> GroupHash(SortedFiles(art.base_path, art.files), tree, bad)
      [] OTHER -> GetFileHash(art.entry, tree, bad)

(***************************************************************************)
(* DuplicateClusterer: the walk of one pass                                *)
(***************************************************************************)
\* os.walk and glob both list a directory through os.scandir, in no
\* specified order: the files of one directory are contiguous
Listings(S) ==
    {l \in Perms(S) :
        \A i, j, k \in 1..Len(l) :
            (i < j /\ j < k /\ Dir(l[i]) = Dir(l[k])) => Dir(l[j]) = Dir(l[i])}

\* some listing of S
RECURSIVE Canon(_)
Canon(S) ==
    IF S = {} THEN <<>>
    ELSE LET x == CHOOSE y \in S : TRUE IN <<x>> \o Canon(S \ {x})

\* the files the walk of a pass looks at: its entry files and their members.
\* Where the other files stand in the listing changes nothing.
Relevant(fam, S) ==
    LET listing == Canon(S)
        entries == {f \in S : IsEntry(fam, f)}
    IN  entries \cup UNION {Range(Resolve(fam, f, listing).files) : f \in entries}

\* the objects built by the walk, in discovery order, each with its hash
Walk(fam, listing, tree, bad) ==
    LET entries == Filter(listing, {f \in Range(listing) : IsEntry(fam, f)}) IN
    [i \in 1..Len(entries) |->
        LET art == Resolve(fam, entries[i], listing) IN
        [ entry |-> art.entry, base_path |-> art.base_path, files |-> art.files,
          unread |-> Range(art.files) \cap bad,
          hash |-> Hash(fam, art, tree, bad) ]]

\* "if file_hash:" - None is dropped, any hex digest is kept
Hashed(as) == Filter(as, {a \in Range(as) : a.hash # None})

\* hash_to_files.values(): one list per digest, in first-insertion order
RECURSIVE Values(_)
Values(as) ==
    IF as = <<>> THEN <<>>
    ELSE LET h == Head(as).hash
             same == {a \in Range(as) : a.hash = h}
         IN  <<Filter(as, same)>> \o Values(Filter(as, Range(as) \ same))

(***************************************************************************)
(* SurvivorSelector                                                        *)
(***************************************************************************)
\* float('inf')
Inf == 99

\* _safe_ctime
SafeCtime(path, tree) == IF path \in DOMAIN tree THEN tree[path].ctime ELSE Inf

\* an insertion that puts an element before the elements of its key
RECURSIVE InsertFirst(_, _, _)
InsertFirst(x, s, key) ==
    IF s = <<>> THEN <<x>>
    ELSE IF key[Head(s)] < key[x] THEN <<Head(s)>> \o InsertFirst(x, Tail(s), key)
    ELSE <<x>> \o s

\* list.sort(key=...): stable, ascending; key maps each element to its key
RECURSIVE Insert(_, _, _)
Insert(x, s, key) ==
    IF s = <<>> THEN <<x>>
    ELSE IF key[Head(s)] <= key[x] THEN <<Head(s)>> \o Insert(x, Tail(s), key)
         ELSE <<x>> \o s

RECURSIVE SortBy(_, _)
SortBy(s, key) ==
    IF s = <<>> THEN <<>> ELSE Insert(Last(s), SortBy(Front(s), key), key)

\* a consolidation that leaves the group in the order of the walk
KeepWalkOrder(group, tree) == group

\* group.sort(key=lambda x: _safe_ctime(x.base_path))
SortGroup(group, tree) ==
    SortBy(group, [a \in Range(group) |-> SafeCtime(a.base_path, tree)])

(***************************************************************************)
(* ConsolidationExecutor                                                   *)
(***************************************************************************)
\* a destination that keeps the file name only
FlatDst(f) == <<"out", "", Name(f)>>

\* os.path.join(output_folder, rel_path, os.path.basename(f))
Dst(f) == <<"out", Dir(f), Name(f)>>

\* a duplicate that is copied and deleted member by member
MemberByMember(dup) ==
    Flatten([i \in 1..Len(dup.files) |->
                <<[op |-> "copy", path |-> dup.files[i], art |-> dup.entry],
                  [op |-> "delete", path |-> dup.files[i], art |-> dup.entry]>>])

\* dup.copy_to(...) then dup.delete(): one copy_file call per member, then
\* one delete_file call per member
OpsOf(dup) ==
    [i \in 1..Len(dup.files) |-> [op |-> "copy", path |-> dup.files[i], art |-> dup.entry]]
    \o [i \in 1..Len(dup.files) |-> [op |-> "delete", path |-> dup.files[i], art |-> dup.entry]]

\* for dup in duplicates: ...
OpsOfAll(duplicates) == Flatten([i \in 1..Len(duplicates) |-> OpsOf(duplicates[i])])

Event(kind, ok, path, art) ==
    [run |-> run, pass |-> pass, kind |-> kind, ok |-> ok, path |-> path, art |-> art]

(***************************************************************************)
(* Input trees                                                             *)
(***************************************************************************)
\* Files interact only through a shared base path, a shared family or equal
\* content, so the trees are drawn scene by scene.
\* two shapefiles of two components each
ShapeScene ==
    { <<"a", <<"p", "shp">>>>, <<"a", <<"p", "shx">>>>,
      <<"b", <<"q", "shp">>>>, <<"b", <<"q", "shx">>>> }

\* MapInfo tables, entry files with embedded dots and a .dat (the MapInfo and
\* the image table both list it)
TableScene ==
    { <<"a", <<"data", "tab">>>>, <<"a", <<"data", "dat">>>>,
      <<"a", <<"data", "v2", "tab">>>>,
      <<"b", <<"map", "tab">>>>, <<"b", <<"map", "v1", "tab">>>> }

\* rasters with a sidecar and generic files, sharing the base path a/x
RasterScene ==
    { <<"a", <<"x", "tif">>>>, <<"a", <<"x", "tfw">>>>, <<"b", <<"x", "tif">>>>,
      <<"a", <<"x", "txt">>>>, <<"a", <<"x", "doc">>>>, <<"b", <<"x", "txt">>>> }

\* atomic single-file artifacts
ArchiveScene ==
    { <<"a", <<"k", "zip">>>>, <<"b", <<"k", "zip">>>>, <<"b", <<"j", "zip">>>>,
      <<"a", <<"m", "mpk">>>>, <<"b", <<"m", "mpk">>>> }

Scenes == {ShapeScene, TableScene, RasterScene, ArchiveScene}

Dirs == {"a", "b"}

Contents == {<<1>>, <<2>>}

\* the files of one directory were created together: directory a first,
\* directory b first, or both at the same time
Ages ==
    { [d \in Dirs |-> IF d = "a" THEN 1 ELSE 2],
      [d \in Dirs |-> IF d = "a" THEN 2 ELSE 1],
      [d \in Dirs |-> 1] }

\* two MapInfo tables, one with a .dat, and an image
TableBundle ==
    { <<"a", <<"data", "tab">>>>, <<"a", <<"data", "dat">>>>,
      <<"b", <<"map", "tab">>>>, <<"b", <<"x", "tif">>>> }

\* any tree of at most MaxFiles files of one scene
Trees == UNION {{S \in SUBSET scene : Cardinality(S) <= MaxFiles} : scene \in Scenes}

(***************************************************************************)
(* Orchestration                                                           *)
(***************************************************************************)
\* the programme compares contents and never looks at a byte: of two
\* assignments that differ by exchanging the two byte strings one is enough
Assignments(S) ==
    IF S = {} THEN [S -> Contents]
    ELSE {c \in [S -> Contents] : c[CHOOSE f \in S : TRUE] = <<1>>}

InitOf(trees) ==
    /\ \E S \in trees :
         \E c \in Assignments(S), t \in Ages :
            disk = [f \in S |-> [bytes |-> c[f], ctime |-> t[Dir(f)]]]
    /\ init = disk
    /\ outdisk = <<>>
    /\ actions_log = <<>>
    /\ reports = <<>>
    /\ run = 1
    /\ pass = 0
    /\ pc = "idle"
    /\ arts = <<>>
    /\ buckets = <<>>
    /\ ops = <<>>
    /\ faults = MaxFaults
    /\ claimed = {}
    /\ events = <<>>

Init == InitOf(Trees)

InitShape == InitOf(SUBSET ShapeScene)

InitTable == InitOf(SUBSET TableBundle)

\* the files a walk opens for hashing
Opened(as) == UNION {Range(as[i].files) : i \in 1..Len(as)}

\* a consolidation without its test of len(group)
AllBuckets(bs) == bs

\* a pass that returns after its walk
NonePending(bs) == <<>>

\* "for group in hash_to_files.values(): if len(group) > 1:" - the buckets
\* from the first one that holds several objects on
RECURSIVE Pending(_)
Pending(bs) ==
    IF bs = <<>> THEN <<>>
    ELSE IF Len(Head(bs)) > 1 THEN bs ELSE Pending(Tail(bs))

\* a pass that walks the tree again after it has consolidated
WalkAgain ==
    /\ pc = "idle"
    /\ Pending(buckets) = <<>>
    /\ pass < Len(PassOrder)
    /\ pass' = (IF pass = 0 THEN 1 ELSE pass)
    /\ LET fam == PassOrder[IF pass = 0 THEN 1 ELSE pass] IN
       \E listing \in Listings(Relevant(fam, DOMAIN disk)) :
            LET built == Walk(fam, listing, disk, {}) IN
            /\ arts' = built
            /\ buckets' = Values(Hashed(built))
            /\ claimed' = claimed \cup {<<pass, f>> : f \in Opened(built)}
    /\ UNCHANGED <<disk, outdisk, actions_log, reports, run, pc, ops, init, events,
                   faults>>

\* run_all calls the next pass, whose walk wraps and hashes every entry file
\* and appends the objects that have a hash to hash_to_files
ScanFamily ==
    /\ pc = "idle"
    /\ Pending(buckets) = <<>>
    /\ pass < Len(PassOrder)
    /\ pass' = pass + 1
    /\ LET fam == PassOrder[pass + 1] IN
       \E listing \in Listings(Relevant(fam, DOMAIN disk)) :
         \E bad \in SUBSET Opened(Walk(fam, listing, disk, {})) :
            LET built == Walk(fam, listing, disk, bad) IN
            /\ Cardinality(bad) <= faults
            /\ faults' = faults - Cardinality(bad)
            /\ arts' = built
            /\ buckets' = Values(Hashed(built))
            /\ claimed' = claimed \cup {<<pass + 1, f>> : f \in Opened(built)}
    /\ UNCHANGED <<disk, outdisk, actions_log, reports, run, pc, ops, init, events>>

\* the next bucket of several objects: sort, announce the first, queue the
\* copy and delete calls of the others
SelectSurvivor ==
    /\ pc = "idle"
    /\ Pending(buckets) # <<>>
    /\ LET group == SortGroup(Head(Pending(buckets)), disk)
           original == group[1]
           duplicates == Tail(group)
       IN  /\ events' = Append(events, Event("retain", TRUE, original.base_path, original.entry))
           /\ ops' = OpsOfAll(duplicates)
           /\ pc' = IF OpsOfAll(duplicates) = <<>> THEN "idle" ELSE "ops"
    /\ buckets' = Tail(Pending(buckets))
    /\ UNCHANGED <<disk, outdisk, actions_log, reports, run, pass, arts, faults,
                   init, claimed>>

\* the sort key of an object raises an OSError that is not FileNotFoundError
\* (the directory cannot be searched): _safe_ctime does not catch it, neither
\* do the pass, run_all and main, and the process ends with the traceback
CtimeError ==
    /\ pc = "idle"
    /\ Pending(buckets) # <<>>
    /\ faults > 0
    /\ faults' = faults - 1
    /\ \E a \in Range(Head(Pending(buckets))) :
          events' = Append(events, Event("raise", FALSE, a.base_path, a.entry))
    /\ pc' = "halted"
    /\ UNCHANGED <<disk, outdisk, actions_log, reports, run, pass, arts, buckets,
                   ops, init, claimed>>

AfterOp ==
    /\ ops' = Tail(ops)
    /\ pc' = IF Tail(ops) = <<>> THEN "idle" ELSE "ops"
    /\ UNCHANGED <<reports, run, pass, arts, buckets, init, claimed>>

\* a copy that is recorded and writes nothing
CopyLost ==
    /\ pc = "ops"
    /\ Head(ops).op = "copy"
    /\ LET src == Head(ops).path IN
       /\ src \in DOMAIN disk
       /\ actions_log' = Append(actions_log, <<"Copied", src, Dst(src), SplitExt(Name(src))>>)
       /\ events' = Append(events, Event("copy", TRUE, src, Head(ops).art))
    /\ AfterOp
    /\ UNCHANGED <<disk, outdisk, faults>>

\* copy_file: the copy succeeds and is recorded
CopyOk ==
    /\ pc = "ops"
    /\ Head(ops).op = "copy"
    /\ LET src == Head(ops).path IN
       /\ src \in DOMAIN disk
       /\ outdisk' = [d \in DOMAIN outdisk \cup {Dst(src)} |->
                         IF d = Dst(src) THEN disk[src].bytes ELSE outdisk[d]]
       /\ actions_log' = Append(actions_log, <<"Copied", src, Dst(src), SplitExt(Name(src))>>)
       /\ events' = Append(events, Event("copy", TRUE, src, Head(ops).art))
    /\ AfterOp
    /\ UNCHANGED <<disk, faults>>

\* a copy_file without its try: the exception ends the run
CopyFailAborts ==
    /\ pc = "ops"
    /\ Head(ops).op = "copy"
    /\ faults > 0
    /\ faults' = faults - 1
    /\ pc' = "halted"
    /\ UNCHANGED <<disk, outdisk, actions_log, reports, run, pass, arts, buckets,
                   ops, init, claimed, events>>

\* copy_file: the exception is caught and logged, nothing is recorded
CopyFail ==
    /\ pc = "ops"
    /\ Head(ops).op = "copy"
    /\ \/ Head(ops).path \notin DOMAIN disk /\ faults' = faults
       \/ Head(ops).path \in DOMAIN disk /\ faults > 0 /\ faults' = faults - 1
    /\ events' = Append(events, Event("copy", FALSE, Head(ops).path, Head(ops).art))
    /\ AfterOp
    /\ UNCHANGED <<disk, outdisk, actions_log>>

\* a delete_file that removes the file and records nothing
DeleteUnlogged ==
    /\ pc = "ops"
    /\ Head(ops).op = "delete"
    /\ Head(ops).path \in DOMAIN disk
    /\ disk' = [f \in DOMAIN disk \ {Head(ops).path} |-> disk[f]]
    /\ events' = Append(events, Event("delete", TRUE, Head(ops).path, Head(ops).art))
    /\ AfterOp
    /\ UNCHANGED <<outdisk, faults, actions_log>>

\* delete_file: the file is removed and the removal recorded
DeleteOk ==
    /\ pc = "ops"
    /\ Head(ops).op = "delete"
    /\ LET path == Head(ops).path IN
       /\ path \in DOMAIN disk
       /\ disk' = [f \in DOMAIN disk \ {path} |-> disk[f]]
       /\ actions_log' = Append(actions_log, <<"Deleted", path, <<>>, SplitExt(Name(path))>>)
       /\ events' = Append(events, Event("delete", TRUE, path, Head(ops).art))
    /\ AfterOp
    /\ UNCHANGED <<outdisk, faults>>

\* a delete_file without its try: the exception ends the run
DeleteFailAborts ==
    /\ pc = "ops"
    /\ Head(ops).op = "delete"
    /\ \/ Head(ops).path \notin DOMAIN disk /\ faults' = faults
       \/ Head(ops).path \in DOMAIN disk /\ faults > 0 /\ faults' = faults - 1
    /\ events' = Append(events, Event("delete", FALSE, Head(ops).path, Head(ops).art))
    /\ pc' = "halted"
    /\ UNCHANGED <<disk, outdisk, actions_log, reports, run, pass, arts, buckets,
                   ops, init, claimed>>

\* delete_file: the exception is caught and logged, nothing is recorded
DeleteFail ==
    /\ pc = "ops"
    /\ Head(ops).op = "delete"
    /\ \/ Head(ops).path \notin DOMAIN disk /\ faults' = faults
       \/ Head(ops).path \in DOMAIN disk /\ faults > 0 /\ faults' = faults - 1
    /\ events' = Append(events, Event("delete", FALSE, Head(ops).path, Head(ops).art))
    /\ AfterOp
    /\ UNCHANGED <<disk, outdisk, actions_log>>

\* a report without its first row
NoHeader == <<>>

\* writer.writerow([...]) of write_csv_report
Header == <<"Action", "Source", "Destination", "File Type">>

\* a report written between two passes
WriteCsvReportEarly ==
    /\ pc = "idle"
    /\ Pending(buckets) = <<>>
    /\ reports' = Append(reports, [header |-> Header, rows |-> actions_log])
    /\ pc' = "done"
    /\ arts' = <<>>
    /\ buckets' = <<>>
    /\ UNCHANGED <<disk, outdisk, actions_log, run, pass, ops, faults, init,
                   claimed, events>>

\* run_all has returned: write_csv_report writes the header, then
\* writer.writerows(actions_log)
WriteCsvReport ==
    /\ pc = "idle"
    /\ Pending(buckets) = <<>>
    /\ pass = Len(PassOrder)
    /\ reports' = Append(reports, [header |-> Header, rows |-> actions_log])
    /\ pc' = "done"
    /\ arts' = <<>>
    /\ buckets' = <<>>
    /\ UNCHANGED <<disk, outdisk, actions_log, run, pass, ops, faults, init,
                   claimed, events>>

\* main is called again in the same process: actions_log is the module's
Main ==
    /\ pc = "done"
    /\ run < MaxRuns
    /\ run' = run + 1
    /\ pass' = 0
    /\ pc' = "idle"
    /\ claimed' = {}
    /\ UNCHANGED <<disk, outdisk, actions_log, reports, arts, buckets, ops,
                   faults, init, events>>

\* the steps of a run in which every exception is one the code catches
Handled ==
    \/ ScanFamily
    \/ SelectSurvivor
    \/ CopyOk
    \/ CopyFail
    \/ DeleteOk
    \/ DeleteFail
    \/ WriteCsvReport

Next ==
    \/ ScanFamily
    \/ SelectSurvivor
    \/ CtimeError
    \/ CopyOk
    \/ CopyFail
    \/ DeleteOk
    \/ DeleteFail
    \/ WriteCsvReport

\* one invocation of main
Spec == Init /\ [][Next]_vars

NextRerun == Next \/ Main

\* one invocation of main on the two shapefiles
SpecShape == InitShape /\ [][Next]_vars

\* main invoked up to MaxRuns times in one process on the table bundle
SpecRerun == InitTable /\ [][NextRerun]_vars

InitBundle == InitOf(SUBSET ShapeScene \cup SUBSET TableBundle)

\* one invocation of main that is not stopped from outside and in which only
\* reads, copies and deletes fail: the interpreter runs the next statement
\* ENABLED ScanFamily: a listing always exists and no read need fail
ScanEnabled == pc = "idle" /\ Pending(buckets) = <<>> /\ pass < Len(PassOrder)

\* WF_vars(ScanFamily), ScanFamily being the only step that changes pass
ScanFair == <>[]ScanEnabled => []<><<pass' = pass + 1>>_vars

SpecHandled ==
    /\ InitBundle /\ [][Handled]_vars
    /\ ScanFair /\ WF_vars(SelectSurvivor)
    /\ WF_vars(CopyOk) /\ WF_vars(CopyFail) /\ WF_vars(DeleteOk) /\ WF_vars(DeleteFail)
    /\ WF_vars(WriteCsvReport)

(***************************************************************************)
(* Properties                                                              *)
(***************************************************************************)
\* the events of the pass in progress
Now(e) == e.run = run /\ e.pass = pass

FileOp(e) == e.kind \in {"copy", "delete"}

EventSet == {events[i] : i \in 1..Len(events)}

ArtSet == {arts[i] : i \in 1..Len(arts)}

\* the object of the current pass that was built from this entry file
ArtOf(entry) == CHOOSE a \in ArtSet : a.entry = entry

\* the objects of the current pass that share a bucket with a
BucketOf(a) == {b \in ArtSet : b.hash # None /\ b.hash = a.hash}

AllUnread(a) == a.files # <<>> /\ Range(a.files) \subseteq a.unread

\* C1: a member whose copy failed still exists at its source path when the
\* run has finished.
C1_FailedCopyKeepsSource ==
    pc = "done" =>
        \A e \in EventSet : (e.kind = "copy" /\ ~e.ok) => e.path \in DOMAIN disk

\* C2: no member file of the survivor of a cluster is copied or deleted by
\* the pass that announced it.
C2_SurvivorUntouched ==
    \A e \in EventSet : (Now(e) /\ e.kind = "retain") =>
        \A o \in EventSet : (Now(o) /\ FileOp(o)) =>
            o.path \notin Range(ArtOf(e.art).files)

\* C3: the survivor of a cluster is an artifact whose creation timestamp
\* (that of the file the walk found it by) is minimal in its cluster.
C3_OldestWins ==
    \A e \in EventSet : (Now(e) /\ e.kind = "retain") =>
        \A b \in BucketOf(ArtOf(e.art)) : init[e.art].ctime <= init[b.entry].ctime

\* C4: within one pass no file is a member of two artifacts and no base
\* path yields two artifacts.
C4_PassPartition ==
    \A i, j \in 1..Len(arts) : i # j =>
        /\ Range(arts[i].files) \cap Range(arts[j].files) = {}
        /\ arts[i].base_path # arts[j].base_path

\* C5: across the run a file is a member of artifacts of one family only.
C5_OneFamilyPerFile ==
    \A x, y \in claimed : x[2] = y[2] => x[1] = y[1]

\* C6: an artifact none of whose members could be read has no fingerprint,
\* shares a bucket with no artifact, is not announced as survivor and has no
\* member copied or deleted.
C6_UnreadableExcluded ==
    \A a \in ArtSet : AllUnread(a) =>
        /\ a.hash = None
        /\ BucketOf(a) = {}
        /\ \A e \in EventSet : Now(e) => e.art # a.entry

\* C7: an artifact with no member file is in no bucket and is never
\* announced as survivor.
C7_ZeroMemberSkipped ==
    \A a \in ArtSet : a.files = <<>> =>
        /\ \A i \in 1..Len(buckets) : a \notin Range(buckets[i])
        /\ \A e \in EventSet : (Now(e) /\ e.kind = "retain") => e.art # a.entry

\* the part of a member's name after the base path of its artifact
Suffix(a, f) == SubSeq(Name(f), Len(Name(a.base_path)) + 1, Len(Name(f)))

\* same component suffixes with the same bytes, all of them read
Identical(a, b) ==
    /\ a.unread = {} /\ b.unread = {}
    /\ {<<Suffix(a, f), init[f].bytes>> : f \in Range(a.files)}
         = {<<Suffix(b, f), init[f].bytes>> : f \in Range(b.files)}

\* C8: two artifacts of a pass with byte-identical components have the same
\* fingerprint, whatever the order of the listing.
C8_FingerprintOfIdentical ==
    \A a, b \in ArtSet : Identical(a, b) => a.hash = b.hash

\* C9: after a first run without any failure, the second run issues no copy
\* and no delete.
C9_SecondRunIdle ==
    (faults = MaxFaults /\ \A e \in EventSet : e.run = 1 => e.ok) =>
        \A e \in EventSet : e.run = 2 => ~FileOp(e)

\* the survivors the consolidation of these buckets announces on this tree
Survivors(bs, tree) ==
    {SortGroup(bs[i], tree)[1].entry : i \in {k \in 1..Len(bs) : Len(bs[k]) > 1}}

\* the walk of the pass has just ended and every read succeeded
JustWalked ==
    /\ pc = "idle" /\ pass > 0 /\ arts # <<>>
    /\ buckets = Values(Hashed(arts))
    /\ \A a \in ArtSet : a.unread = {}

AtomicPass ==
    pass > 0 /\ PassOrder[pass] \in {"Package", "ZIP", "Non-GIS Database"}

\* every read of the pass succeeded and two artifacts with the same
\* fingerprint never have the same creation timestamp
DistinctAges ==
    \A a, b \in ArtSet :
        /\ a.unread = {}
        /\ (a # b /\ a.hash # None /\ a.hash = b.hash)
              => SafeCtime(a.base_path, init) # SafeCtime(b.base_path, init)

C11_ErrorDoesNotEndRun ==
    \A e \in EventSet : e.kind = "raise" => pc # "halted"

\* C12: whatever reads, copies and deletes fail, the run reaches the
\* reporting step and writes the report.
C12_ReportEventuallyWritten == <>(pc = "done" /\ Len(reports) = 1)

\* the report was written after a read, a copy or a delete had failed
C12_Witness ==
    /\ pc = "done" /\ Len(reports) = 1
    /\ \/ \E e \in EventSet : FileOp(e) /\ ~e.ok /\ e.path \in DOMAIN init
       \/ faults < MaxFaults

\* the audit record of a successful file operation
RecordOf(e) ==
    IF e.kind = "copy"
    THEN <<"Copied", e.path, Dst(e.path), SplitExt(Name(e.path))>>
    ELSE <<"Deleted", e.path, <<>>, SplitExt(Name(e.path))>>

\* C13: a step that completes a successful copy or delete appends exactly
\* its record to the audit sequence, and every other step (a failed copy or
\* delete included) leaves the sequence as it is.
C13_AuditAppendOnly ==
    [][IF events' # events /\ FileOp(Last(events')) /\ Last(events').ok
       THEN actions_log' = Append(actions_log, RecordOf(Last(events')))
       ELSE actions_log' = actions_log]_vars

\* a copy and a delete were recorded and a failed operation was not
C13_Witness ==
    /\ \E i \in 1..Len(actions_log) : actions_log[i][1] = "Copied"
    /\ \E i \in 1..Len(actions_log) : actions_log[i][1] = "Deleted" /\ actions_log[i][3] = <<>>
    /\ \E e \in EventSet : FileOp(e) /\ ~e.ok
    /\ Len(actions_log) = Cardinality({i \in 1..Len(events) : FileOp(events[i]) /\ events[i].ok})

\* C14: the report is written once per run, when every family pass has
\* finished, and it holds the four column names and the audit records
\* accumulated so far, in append order.
C14_ReportAtEnd ==
    /\ Len(reports) = (IF pc = "done" THEN run ELSE run - 1)
    /\ pc = "done" =>
          /\ pass = Len(PassOrder) /\ ops = <<>> /\ Pending(buckets) = <<>>
          /\ Last(reports).header = <<"Action", "Source", "Destination", "File Type">>
          /\ Last(reports).rows = actions_log

\* a report with a Copied and a Deleted row was written
C14_Witness ==
    /\ pc = "done"
    /\ Len(reports) = 1
    /\ \E i, j \in 1..Len(reports[1].rows) :
          i < j /\ reports[1].rows[i][1] = "Copied" /\ reports[1].rows[j][1] = "Deleted"

\* the run has finished and the environment injected no failure
CleanRun == pc = "done" /\ run = 1 /\ faults = MaxFaults

\* C15: with a/x.txt and b/x.txt of equal content, a/x.txt the older one, a
\* run copies b/x.txt to out/b/x.txt, deletes it, leaves a/x.txt in place and
\* reports one Copied and one Deleted row for b/x.txt.
C15_GenericScenario ==
    LET ax == <<"a", <<"x", "txt">>>>
        bx == <<"b", <<"x", "txt">>>>
    IN  (/\ CleanRun
         /\ DOMAIN init = {ax, bx}
         /\ init[ax].bytes = init[bx].bytes
         /\ init[ax].ctime < init[bx].ctime)
        => /\ DOMAIN disk = {ax} /\ disk[ax] = init[ax]
           /\ DOMAIN outdisk = {Dst(bx)} /\ outdisk[Dst(bx)] = init[bx].bytes
           /\ reports[1].rows = << <<"Copied", bx, <<"out", "b", <<"x", "txt">>>>, <<"txt">>>>,
                                   <<"Deleted", bx, <<>>, <<"txt">>>> >>

\* C16: with shapefiles a/p and b/q of components .shp and .shx that are
\* byte-identical pairwise, a/p the older one, a run copies and deletes both
\* components of b/q and leaves both components of a/p in place.
C16_ShapefileScenario ==
    LET pshp == <<"a", <<"p", "shp">>>>
        pshx == <<"a", <<"p", "shx">>>>
        qshp == <<"b", <<"q", "shp">>>>
        qshx == <<"b", <<"q", "shx">>>>
    IN  (/\ CleanRun
         /\ DOMAIN init = {pshp, pshx, qshp, qshx}
         /\ init[pshp].bytes = init[qshp].bytes
         /\ init[pshx].bytes = init[qshx].bytes
         /\ init[pshp].ctime < init[qshp].ctime)
        => /\ DOMAIN disk = {pshp, pshx}
           /\ DOMAIN outdisk = {Dst(qshp), Dst(qshx)}
           /\ outdisk[Dst(qshp)] = init[qshp].bytes
           /\ outdisk[Dst(qshx)] = init[qshx].bytes

\* C17: an artifact that is alone in its bucket is never announced and has
\* no operation issued for it; copies and deletes are issued only for an
\* artifact that shares its bucket with the survivor announced for it.
C17_OnlyClustersConsolidated ==
    \A e \in EventSet : \A a \in ArtSet : (Now(e) /\ a.entry = e.art) =>
        /\ Cardinality(BucketOf(a)) > 1
        /\ FileOp(e) =>
              \E o \in EventSet :
                  /\ Now(o) /\ o.kind = "retain" /\ o.art # a.entry
                  /\ ArtOf(o.art) \in BucketOf(a)

\* a pass consolidated a cluster and left an artifact that was alone in its
\* bucket
C17_Witness ==
    /\ pc = "idle"
    /\ \E a \in ArtSet : BucketOf(a) = {a}
    /\ \E e \in EventSet : Now(e) /\ e.kind = "delete" /\ e.ok

\* C18: the artifact announced as survivor is one whose creation timestamp
\* could be obtained when the cluster was sorted (the announcement leaves the
\* tree as the sort saw it).
C18_SurvivorHasTimestamp ==
    (events # <<>> /\ Last(events).kind = "retain") =>
        Last(events).path \in DOMAIN disk

\* C19: on an empty input root no operation is issued, the audit sequence
\* stays empty, the run is not ended by an error and its report holds the
\* header and no data row.
C19_EmptyRoot ==
    DOMAIN init = {} =>
        /\ events = <<>> /\ actions_log = <<>> /\ DOMAIN outdisk = {}
        /\ pc # "halted"
        /\ pc = "done" =>
              reports = << [header |-> <<"Action", "Source", "Destination", "File Type">>,
                            rows |-> <<>>] >>

\* the run on the empty root has written its report
C19_Witness == DOMAIN init = {} /\ pc = "done" /\ Len(reports) = 1

\* C20: the passes are shapefile, MapInfo, image, package, ZIP, non-GIS
\* database, generic; a walk starts the next pass of that order, and only
\* when no cluster and no operation of the pass before is left; the run
\* ends after the generic pass.
C20_PassesInOrder ==
    /\ [](/\ PassOrder = <<"Shapefile", "MapInfo", "Image", "Package", "ZIP",
                           "Non-GIS Database", "Generic">>
          /\ pc = "done" => pass = Len(PassOrder)
          /\ \A i, j \in 1..Len(events) :
                (i < j /\ events[i].run = events[j].run) => events[i].pass <= events[j].pass)
    /\ [][pass' # pass =>
            /\ pass' = pass + 1
            /\ pc = "idle" /\ ops = <<>>
            /\ \A i \in 1..Len(buckets) : Len(buckets[i]) <= 1]_vars

\* the run ended after a pass before the last one had copied and deleted
C20_Witness ==
    /\ pc = "done"
    /\ \E e \in EventSet : e.kind = "copy" /\ e.ok /\ e.pass < pass
    /\ \E e \in EventSet : e.kind = "delete" /\ e.ok /\ e.pass < pass

\* C21: the walk of a pass is over before its first copy or delete: every
\* queued operation belongs to an artifact the walk has built, and no step
\* builds artifacts in a pass that has already issued an operation.
C21_WalkBeforeOperations ==
    /\ [](\A i \in 1..Len(ops) : \E a \in ArtSet : a.entry = ops[i].art)
    /\ [][(arts' # arts /\ pc' # "done") =>
             ~\E i \in 1..Len(events') :
                 /\ events'[i].run = run' /\ events'[i].pass = pass'
                 /\ FileOp(events'[i])]_vars

\* operations are being issued in a pass whose walk built several artifacts
C21_Witness ==
    /\ pc = "ops" /\ Len(arts) > 1
    /\ \E e \in EventSet : Now(e) /\ FileOp(e)

\* C22: no artifact of a later pass holds a file that an earlier pass of the
\* same run has copied to the output tree or deleted, and no source path is
\* copied by two passes of one run.
C22_NoReclaimAcrossPasses ==
    /\ \A c \in claimed :
          ~\E e \in EventSet :
              /\ e.run = run /\ e.pass < c[1]
              /\ FileOp(e) /\ e.ok /\ e.path = c[2]
    /\ \A e1, e2 \in EventSet :
          (/\ e1.kind = "copy" /\ e2.kind = "copy" /\ e1.ok /\ e2.ok
           /\ e1.run = e2.run /\ e1.path = e2.path) => e1.pass = e2.pass

NowOp(e) == Now(e) /\ FileOp(e)

SamePass(e, f) == e.run = f.run /\ e.pass = f.pass

\* the attempt x follows the attempt w of the same duplicate
Continues(w, x) == w.art = x.art /\ ~(w.op = "delete" /\ x.op = "copy")

Attempt(e) == [op |-> e.kind, path |-> e.path, art |-> e.art]

IndexOf(entry) == CHOOSE i \in 1..Len(arts) : arts[i].entry = entry

\* C23: the duplicates of a cluster are consolidated one after the other in
\* the order of the sorted list; for each duplicate every copy attempt comes
\* before every delete attempt, and all of them before any operation on the
\* next duplicate.
C23_DuplicatesInOrder ==
    /\ \A i \in 2..Len(events) :
          FileOp(events[i]) =>
              \/ /\ FileOp(events[i-1]) /\ SamePass(events[i-1], events[i])
                 /\ Continues(Attempt(events[i-1]), Attempt(events[i]))
              \/ \A k \in 1..(i-1) :
                    ~(/\ FileOp(events[k]) /\ SamePass(events[k], events[i])
                      /\ events[k].art = events[i].art)
    /\ \A i \in 1..Len(ops) :
          \/ /\ i > 1
             /\ Continues(ops[i-1], ops[i])
          \/ /\ i = 1 /\ FileOp(Last(events)) /\ Now(Last(events))
             /\ Continues(Attempt(Last(events)), ops[1])
          \/ /\ \A k \in 1..Len(events) :
                    ~(FileOp(events[k]) /\ Now(events[k]) /\ events[k].art = ops[i].art)
             /\ \A k \in 1..(i-1) : ops[k].art # ops[i].art
    /\ (pc = "ops" /\ Last(events).kind = "retain") =>
          \A i, j \in 1..Len(ops) :
              (i < j /\ ops[i].art # ops[j].art) =>
                  LET a == ArtOf(ops[i].art)
                      b == ArtOf(ops[j].art)
                      ka == SafeCtime(a.base_path, disk)
                      kb == SafeCtime(b.base_path, disk)
                  IN  /\ BucketOf(a) = BucketOf(b)
                      /\ ka <= kb
                      /\ ka = kb => IndexOf(a.entry) < IndexOf(b.entry)

\* a duplicate has been copied and deleted and the next duplicate of the
\* cluster is being consolidated
C23_Witness ==
    /\ Len(events) > 2 /\ pc = "ops"
    /\ LET n == Len(events) IN
       /\ NowOp(events[n]) /\ NowOp(events[n-1]) /\ NowOp(events[n-2])
       /\ events[n-2].kind = "copy" /\ events[n-1].kind = "delete"
       /\ events[n-2].art = events[n-1].art
       /\ events[n].art # events[n-1].art

Copied == {rec \in Range(actions_log) : rec[1] = "Copied"}

\* C24: a relocated file keeps its place: the destination of every Copied
\* record, taken relative to the output root, is the source taken relative
\* to the input root, and two Copied records with different sources have
\* different destinations.
C24_MirroredDestination ==
    /\ \A rec \in Copied :
          /\ rec[3] = <<"out", rec[2][1], rec[2][2]>>
          /\ rec[3] \in DOMAIN outdisk
    /\ \A r1, r2 \in Copied : r1[2] # r2[2] => r1[3] # r2[3]

\* files of the same name from two directories have been relocated
C24_Witness ==
    \E r1, r2 \in Copied : r1[2][1] # r2[2][1] /\ r1[2][2] = r2[2][2]

\* the last step was a delete of an existing member that failed after the
\* same duplicate had copied it
DeleteFailedAfterCopy ==
    /\ events # <<>>
    /\ Last(events).kind = "delete" /\ ~Last(events).ok
    /\ Last(events).path \in DOMAIN disk
    /\ \E k \in 1..Len(events) :
          /\ events[k].kind = "copy" /\ events[k].ok
          /\ SamePass(events[k], Last(events))
          /\ events[k].art = Last(events).art
          /\ events[k].path = Last(events).path

\* C25: when the delete of a member fails after its copy succeeded, the
\* member is still at its source and at the mirrored destination, the audit
\* holds its Copied record and no Deleted record, and the pass goes on.
C25_DeleteErrorLeavesBoth ==
    DeleteFailedAfterCopy =>
        LET f == Last(events).path IN
        /\ <<"out", f[1], f[2]>> \in DOMAIN outdisk
        /\ outdisk[<<"out", f[1], f[2]>>] = disk[f].bytes
        /\ \E rec \in Copied : rec[2] = f
        /\ ~\E rec \in Range(actions_log) : rec[1] = "Deleted" /\ rec[2] = f
        /\ pc # "halted"
        /\ pc = "ops" <=> ops # <<>>

\* the delete failed in the middle of a duplicate and operations remain
C25_Witness == DeleteFailedAfterCopy /\ pc = "ops"

\* the last step sorted a cluster and announced its survivor
JustSorted == arts # <<>> /\ events # <<>> /\ Last(events).kind = "retain" /\ Now(Last(events))

\* C26: among the artifacts of a cluster with the least sort key (the same
\* timestamp, or all missing) the survivor is the one the walk found first.
C26_FirstDiscoveredWins ==
    JustSorted =>
        LET s == ArtOf(Last(events).art) IN
        \A b \in BucketOf(s) :
            /\ SafeCtime(s.base_path, disk) <= SafeCtime(b.base_path, disk)
            /\ SafeCtime(s.base_path, disk) = SafeCtime(b.base_path, disk)
                   => IndexOf(s.entry) <= IndexOf(b.entry)

\* a survivor was chosen among artifacts of one timestamp
C26_Witness ==
    /\ JustSorted
    /\ LET s == ArtOf(Last(events).art) IN
       /\ SafeCtime(s.base_path, disk) < Inf
       /\ \E b \in BucketOf(s) :
             /\ b # s
             /\ SafeCtime(b.base_path, disk) = SafeCtime(s.base_path, disk)

GroupFamilies == {"Shapefile", "MapInfo", "Image", "Generic"}

\* an artifact of several members of which some, not all, could not be read
PartlyUnread(a) == a.unread # {} /\ Range(a.files) \ a.unread # {}

\* the artifact made of the members of a that could be read
ReadablePart(a) == [a EXCEPT !.files = Filter(a.files, Range(a.files) \ a.unread)]

Recorded(r) == {k \in 1..Len(events) : events[k].run = r /\ FileOp(events[k]) /\ events[k].ok}

\* C28: the audit sequence is empty when a run starts, and the report of a
\* run invoked again in the same process holds the records of that run only.
C28_ReportOfOwnRun ==
    /\ (pc = "idle" /\ pass = 0) => actions_log = <<>>
    /\ \A r \in 1..Len(reports) :
          /\ Len(reports[r].rows) = Cardinality(Recorded(r))
          /\ \A rec \in Range(reports[r].rows) :
                \E k \in Recorded(r) : RecordOf(events[k]) = rec

\* the file of the k-th attempt was at its source when the attempt was made
ExistedAt(k) ==
    ~\E j \in 1..(k-1) :
        events[j].kind = "delete" /\ events[j].ok /\ events[j].path = events[k].path

\* some copy of a file that was at its source has failed
CopyOfExistingFailed ==
    \E k \in 1..Len(events) :
        events[k].kind = "copy" /\ ~events[k].ok /\ ExistedAt(k)

\* C29: when every copy of a file that exists succeeds, no content is lost:
\* a file of the input tree at the start that is no longer there is at its
\* mirrored path in the output tree with the content it had.
C29_ContentConserved ==
    ~CopyOfExistingFailed =>
        \A f \in DOMAIN init \ DOMAIN disk :
            /\ <<"out", f[1], f[2]>> \in DOMAIN outdisk
            /\ outdisk[<<"out", f[1], f[2]>>] = init[f].bytes

\* a finished run that removed files, one of which a later duplicate of the
\* pass tried to copy again
C29_Witness ==
    /\ pc = "done"
    /\ DOMAIN init \ DOMAIN disk # {}
    /\ ~CopyOfExistingFailed
    /\ \E e \in EventSet : e.kind = "copy" /\ ~e.ok

====
